---- MODULE Spec2Model ----
(***************************************************************************)
(* A model of app.py, the GenAI Wealth Advisor form: the script that       *)
(* Streamlit re-executes from top to bottom after every user action, and   *)
(* the four computations it calls (allocation lookup, narrator request,    *)
(* SIP formula, CAGR estimate and its aggregation).                        *)
(*                                                                         *)
(* Numbers.  Percentages with two decimals are integers in hundredths of   *)
(* a percent ("bp": 14.87% is 1487).  The slider's rate is in hundredths   *)
(* of a percent too (12.0 is 1200).  The SIP and CAGR formulas are         *)
(* evaluated exactly, on naturals of arbitrary size kept as sequences of   *)
(* limbs, and rounded once at the end as round() does.                     *)
(***************************************************************************)
EXTENDS Integers, Sequences, FiniteSets, TLC

(***************************************************************************)
(* Bounds of the model.                                                    *)
(***************************************************************************)
\* adjusted-close prices are drawn from -1..MaxPrice
MaxPrice == 2
\* a fetched price series holds at most MaxSeriesLen rows
MaxSeriesLen == 2
\* SIP durations drawn for the formula: 0..MaxYears
MaxYears == 2

(***************************************************************************)
(* Exact arithmetic on naturals: little-endian sequences of limbs in base  *)
(* Base, without leading zero limbs (<<>> is 0).  Carries and borrows are  *)
(* resolved by look-ahead rather than by a recursion over the limbs.       *)
(***************************************************************************)
Base == 10 * 10 * 10

Abs(x) == IF x < 0 THEN -x ELSE x

Min(x, y) == IF x < y THEN x ELSE y

Max(x, y) == IF x > y THEN x ELSE y

Limb(a, i) == IF i \in 1..Len(a) THEN a[i] ELSE 0

RECURSIVE BigFromInt(_)
BigFromInt(n) ==
    IF n = 0 THEN <<>> ELSE <<n % Base>> \o BigFromInt(n \div Base)

\* the sequence <<f[lo], ..., f[hi]>>, each value computed once
RECURSIVE SeqOf(_, _, _)
SeqOf(f, lo, hi) ==
    IF lo > hi THEN <<>>
    ELSE IF lo = hi THEN <<f[lo]>>
    ELSE LET mid == (lo + hi) \div 2
         IN  SeqOf(f, lo, mid) \o SeqOf(f, mid + 1, hi)

\* d without its leading zero limbs
BigNorm(d) ==
    IF \A i \in 1..Len(d) : d[i] = 0 THEN <<>>
    ELSE SubSeq(d, 1, CHOOSE i \in 1..Len(d) :
                          d[i] # 0 /\ \A j \in (i + 1)..Len(d) : d[j] = 0)

\* the natural whose limb i is worth w[i] * Base^(i-1), for w[i] in 0..2^31-1
BigCarry(w) ==
    LET n  == Len(w)
        s1 == SeqOf([p \in 1..(n + 3) |->
                  (Limb(w, p) % Base)
                + ((Limb(w, p - 1) \div Base) % Base)
                + ((Limb(w, p - 2) \div (Base * Base)) % Base)
                + (Limb(w, p - 3) \div (Base * Base * Base))], 1, n + 3)
        s2 == SeqOf([p \in 1..(n + 4) |->
                  (Limb(s1, p) % Base) + (Limb(s1, p - 1) \div Base)], 1, n + 4)
        carry(p) == IF \E q \in 1..(p - 1) :
                          s2[q] >= Base /\ \A r \in (q + 1)..(p - 1) : s2[r] = Base - 1
                    THEN 1 ELSE 0
    IN  BigNorm(SeqOf([p \in 1..(n + 5) |-> (Limb(s2, p) + carry(p)) % Base],
                      1, n + 5))

BigAdd(a, b) ==
    LET n == Max(Len(a), Len(b))
    IN  BigCarry(SeqOf([p \in 1..n |-> Limb(a, p) + Limb(b, p)], 1, n))

\* a - b, for a >= b
BigSub(a, b) ==
    LET d == SeqOf([p \in 1..Len(a) |-> a[p] - Limb(b, p)], 1, Len(a))
        borrow(p) == IF \E q \in 1..(p - 1) :
                           d[q] < 0 /\ \A r \in (q + 1)..(p - 1) : d[r] = 0
                     THEN 1 ELSE 0
    IN  BigNorm(SeqOf([p \in 1..Len(a) |-> (d[p] - borrow(p)) % Base], 1, Len(a)))

RECURSIVE SumFn(_, _, _)
SumFn(f, lo, hi) ==
    IF lo > hi THEN 0
    ELSE IF lo = hi THEN f[lo]
    ELSE LET mid == (lo + hi) \div 2
         IN  SumFn(f, lo, mid) + SumFn(f, mid + 1, hi)

BigMul(a, b) ==
    IF a = <<>> \/ b = <<>> THEN <<>>
    ELSE BigCarry(SeqOf([k \in 1..(Len(a) + Len(b) - 1) |->
             LET lo == Max(1, k - Len(b) + 1)
                 hi == Min(k, Len(a))
             IN  SumFn([i \in lo..hi |-> a[i] * b[k - i + 1]], lo, hi)],
             1, Len(a) + Len(b) - 1))

\* -1, 0, 1 as a < b, a = b, a > b
BigCmp(a, b) ==
    IF Len(a) < Len(b) THEN -1
    ELSE IF Len(a) > Len(b) THEN 1
    ELSE IF a = b THEN 0
    ELSE LET top == CHOOSE i \in 1..Len(a) :
                        a[i] # b[i] /\ \A j \in (i + 1)..Len(a) : a[j] = b[j]
         IN  IF a[top] < b[top] THEN -1 ELSE 1

RECURSIVE BigPow(_, _)
BigPow(a, n) ==
    IF n = 0 THEN <<1>>
    ELSE LET h  == BigPow(a, n \div 2)
             sq == BigMul(h, h)
         IN  IF n % 2 = 0 THEN sq ELSE BigMul(sq, a)

\* the largest q in lo..hi with q * den <= num (lo satisfies it)
RECURSIVE BigFloorSearch(_, _, _, _)
BigFloorSearch(lo, hi, num, den) ==
    IF lo = hi THEN lo
    ELSE LET mid == (lo + hi + 1) \div 2
         IN  IF BigCmp(BigMul(den, BigFromInt(mid)), num) <= 0
             THEN BigFloorSearch(mid, hi, num, den)
             ELSE BigFloorSearch(lo, mid - 1, num, den)

\* round(num / den) for naturals num, den > 0 with num / den <= hi: the
\* nearest integer, an exact half going to the even neighbour (Python 3)
BigRoundDiv(num, den, hi) ==
    LET q    == BigFloorSearch(0, hi, num, den)
        rem  == BigSub(num, BigMul(den, BigFromInt(q)))
        c    == BigCmp(BigAdd(rem, rem), den)
    IN  IF c < 0 THEN q
        ELSE IF c > 0 THEN q + 1
        ELSE IF q % 2 = 0 THEN q ELSE q + 1

\* round(n / d) for machine integers, d > 0, halves to even
RoundDiv(n, d) ==
    LET a == Abs(n)
        q == a \div d
        r == a % d
        m == IF 2 * r < d THEN q
             ELSE IF 2 * r > d THEN q + 1
             ELSE IF q % 2 = 0 THEN q ELSE q + 1
    IN  IF n < 0 THEN -m ELSE m

(***************************************************************************)
(* get_portfolio_allocation: the fixed table, indexed by the risk the      *)
(* selectbox delivers.                                                     *)
(***************************************************************************)
RiskProfiles == {"Low", "Medium", "High"}

Assets == <<"Equity", "Debt", "Gold">>

get_portfolio_allocation_Swapped(risk) ==
    [Low    |-> [Equity |-> 30, Debt |-> 60, Gold |-> 10],
     Medium |-> [Equity |-> 50, Debt |-> 40, Gold |-> 20],
     High   |-> [Equity |-> 70, Debt |-> 20, Gold |-> 10]][risk]

get_portfolio_allocation(risk) ==
    [Low    |-> [Equity |-> 30, Debt |-> 60, Gold |-> 10],
     Medium |-> [Equity |-> 50, Debt |-> 40, Gold |-> 10],
     High   |-> [Equity |-> 70, Debt |-> 20, Gold |-> 10]][risk]

(***************************************************************************)
(* explain_portfolio.  The one request to the chat-completion endpoint     *)
(* ends in a raised exception (no connection, timeout, ...) or in a        *)
(* response with a status and a body.  A body is text that is no JSON, or  *)
(* a JSON value: object, array, string or null.                            *)
(***************************************************************************)
Fallback == "Based on your risk tolerance and age, a diversified portfolio of equity, debt, and gold is recommended. Equity provides high returns, debt ensures safety, and gold adds stability."

JObj(fields) == [kind |-> "obj", f |-> fields]
JArr(elems)  == [kind |-> "arr", e |-> elems]
JStr(text)   == [kind |-> "str", s |-> text]
JNull        == [kind |-> "null"]
NotJson      == [kind |-> "notjson"]
Raised       == [kind |-> "raise"]

\* the bodies an endpoint is drawn to answer with
Completion(text) ==
    JObj([choices |-> JArr(<<JObj([message |-> JObj([role    |-> JStr("assistant"),
                                                      content |-> JStr(text)])])>>)])

CompleteBodies == {Completion("Hold mostly equity."), Completion("partial answer")}

Bodies ==
    { NotJson,
      JNull,
      JObj([error |-> JObj([message |-> JStr("rate limited")])]),
      JObj([choices |-> JArr(<<>>)]),
      JObj([choices |-> JArr(<<JObj([finish_reason |-> JStr("error")])>>)]),
      JObj([choices |-> JArr(<<JObj([message |-> JObj([role |-> JStr("assistant")])])>>)])
    } \cup CompleteBodies

Statuses == {200, 401, 500}

Replies ==
    {[net |-> "error"]} \cup
    {[net |-> "ok", status |-> s, body |-> b] : s \in Statuses, b \in Bodies}

\* response.json()
ResponseJson(reply) == IF reply.body.kind = "notjson" THEN Raised ELSE reply.body

\* d[key] for a string key: KeyError on an object without it, TypeError on
\* anything that is no object
Subscript(d, key) ==
    IF d.kind = "obj" /\ key \in DOMAIN d.f THEN d.f[key] ELSE Raised

\* d[0]: IndexError on an empty array, KeyError on an object (its keys are
\* strings), TypeError on null; the first character of a string, on which
\* the next string subscript raises
Subscript0(d) ==
    IF d.kind = "arr" /\ Len(d.e) > 0 THEN d.e[1]
    ELSE IF d.kind = "str" /\ d.s # "" THEN JStr("c")
    ELSE Raised

\* the value of data["choices"][0]["message"]["content"], or Raised when the
\* request, response.json() or one of the subscripts raises
CompletionContent(reply) ==
    IF reply.net = "error" THEN Raised
    ELSE Subscript(Subscript(Subscript0(Subscript(ResponseJson(reply), "choices")),
                             "message"), "content")

\* the try block returns the content; except Exception returns the fallback
explain_portfolio(reply) ==
    IF CompletionContent(reply).kind = "raise" THEN JStr(Fallback)
    ELSE CompletionContent(reply)

(***************************************************************************)
(* fetch_cagr.  The download raises, or delivers a frame whose Adj Close   *)
(* column is a sequence of prices (empty: data.empty).  The prices are     *)
(* numpy floats: a division by zero gives inf or nan, a negative base      *)
(* under a fractional power gives nan, and neither raises.                 *)
(***************************************************************************)
CagrYears == 5

None   == [k |-> "None"]
NaN    == [k |-> "nan"]
Inf    == [k |-> "inf"]
Num(v) == [k |-> "num", bp |-> v]

Prices == -1 .. MaxPrice

RECURSIVE SeqsUpTo(_, _)
SeqsUpTo(S, n) ==
    IF n = 0 THEN {<<>>}
    ELSE LET shorter == SeqsUpTo(S, n - 1)
         IN  shorter \cup {Append(s, x) : s \in shorter, x \in S}

Downloads ==
    {[k |-> "raise"]} \cup
    {[k |-> "data", adj |-> s] : s \in SeqsUpTo(Prices, MaxSeriesLen)}

\* the largest v in lo..hi with ((19999 + 2v) / 20000) ^ years <= a1 / a0,
\* which is round(((a1 / a0) ^ (1 / years) - 1) * 100, 2) in hundredths;
\* rhs is a1 * 20000 ^ years
RECURSIVE CagrSearch(_, _, _, _, _)
CagrSearch(lo, hi, a0, rhs, years) ==
    IF lo = hi THEN lo
    ELSE LET mid == (lo + hi + 1) \div 2
             lhs == BigMul(BigPow(BigFromInt(19999 + 2 * mid), years), BigFromInt(a0))
         IN  IF BigCmp(lhs, rhs) <= 0
             THEN CagrSearch(mid, hi, a0, rhs, years)
             ELSE CagrSearch(lo, mid - 1, a0, rhs, years)

\* round(((end_price / start_price) ** (1 / years) - 1) * 100, 2)
CagrOf(start_price, end_price, years) ==
    LET a0 == Abs(start_price)
        a1 == Abs(end_price)
    IN  IF start_price = 0
        THEN IF end_price = 0 THEN NaN ELSE Inf
        ELSE IF end_price = 0 THEN Num(-10000)
        ELSE IF (start_price < 0) # (end_price < 0) THEN NaN
        ELSE Num(CagrSearch(IF a1 < a0 THEN -9999 ELSE 0,
                            IF a1 < a0 THEN 0 ELSE (10000 * (a1 - a0)) \div a0,
                            a0,
                            BigMul(BigPow(BigFromInt(20000), years), BigFromInt(a1)),
                            years))

fetch_cagr(download) ==
    IF download.k = "raise" THEN None
    ELSE IF download.adj = <<>> THEN None
    ELSE CagrOf(download.adj[1], download.adj[Len(download.adj)], CagrYears)

(***************************************************************************)
(* The aggregation over the three results (lines 157-161): the info line   *)
(* with round(sum(valid) / len(valid), 2), or the warning.  Where the      *)
(* quotient is an exact half of a hundredth the float's binary expansion   *)
(* decides the neighbour; the model takes the even one.                    *)
(***************************************************************************)
RECURSIVE SumBp(_)
SumBp(s) == IF s = <<>> THEN 0 ELSE Head(s).bp + SumBp(Tail(s))

IsPresent(v) == v # None

Average(valid) ==
    IF \E i \in 1..Len(valid) : valid[i] = NaN THEN NaN
    ELSE IF \E i \in 1..Len(valid) : valid[i] = Inf THEN Inf
    ELSE Num(RoundDiv(SumBp(valid), Len(valid)))

\* the slip of dividing by the number of assets instead of len(valid)
aggregate_CountsAbsent(returns) ==
    LET valid == SelectSeq(returns, IsPresent)
    IN  IF valid # <<>>
        THEN [signal |-> "info",
              average |-> IF \A i \in 1..Len(valid) : valid[i].k = "num"
                          THEN Num(RoundDiv(SumBp(valid), Len(returns)))
                          ELSE Average(valid)]
        ELSE [signal |-> "warning", average |-> None]

aggregate(returns) ==
    LET valid == SelectSeq(returns, IsPresent)
    IN  IF valid # <<>>
        THEN [signal |-> "info", average |-> Average(valid)]
        ELSE [signal |-> "warning", average |-> None]

(***************************************************************************)
(* The SIP formula (lines 135-137) on a target, a rate in hundredths of a  *)
(* percent and a number of years:                                          *)
(*   round(target * r / ((1 + r) ** months - 1)),  r = rate / 100 / 12     *)
(* With r = k / D this is target * k * D^(n-1) / ((D + k)^n - D^n).  The   *)
(* operands are floats, so a zero divisor raises ZeroDivisionError.        *)
(***************************************************************************)
RateDenominator == 100 * 100 * 12

RECURSIVE Gcd(_, _)
Gcd(x, y) == IF y = 0 THEN x ELSE Gcd(y, x % y)

SipMonthly(target, rate, years) ==
    LET months == years * 12
        g      == Gcd(RateDenominator, rate)
        k      == BigFromInt(rate \div g)
        d      == BigFromInt(RateDenominator \div g)
        den    == BigSub(BigPow(BigAdd(d, k), months), BigPow(d, months))
        num    == BigMul(BigMul(BigFromInt(Abs(target)), k), BigPow(d, months - 1))
        m      == BigRoundDiv(num, den, Abs(target) \div months)
    IN  IF den = <<>> THEN [k |-> "ZeroDivisionError"]
        ELSE [k |-> "ok", monthly |-> IF target < 0 THEN -m ELSE m]

(***************************************************************************)
(* generate_pdf: the report written to /mnt/data/wealth_report.pdf.  Name  *)
(* is the constant "User"; age, income and goal are copied into the text   *)
(* and decide nothing, so the report is kept as the values that vary.      *)
(***************************************************************************)
generate_pdf(risk_, allocation_, explanation_, mip_info_) ==
    [risk |-> risk_, allocation |-> allocation_,
     explanation |-> explanation_, mip_info |-> mip_info_]

(***************************************************************************)
(* The form.  Streamlit runs the script from its first line after every    *)
(* user action; a button reads True only in the run its own press caused;  *)
(* a widget keeps its value from run to run as long as every run renders   *)
(* it, and starts from its default again once a run has not rendered it.   *)
(***************************************************************************)
SecretKeys == {"openrouter_api_key", "openrouter_model"}

Emails    == {"", "a@example.com"}
Passwords == {"", "secret"}
Ratings   == {"Select", "Excellent", "Good", "Average", "Poor"}

\* st.slider("Expected Return (%)", 6.0, 15.0, 12.0), in hundredths
RateMin     == 600
RateMax     == 1500
RateDefault == 1200
\* st.slider("Duration (Years)", 1, 40, 10)
YearsMin     == 1
YearsMax     == 40
YearsDefault == 10
\* st.number_input("Target Corpus", value=5000000): no minimum
TargetDefault == 5000000

InnerDefaults ==
    [rate |-> RateDefault, years |-> YearsDefault,
     target |-> TargetDefault, feedback |-> "Select"]

\* the values a user is drawn to set each widget of the Generate block to
InnerValues ==
    [rate     |-> {RateMin, RateDefault, RateMax},
     years    |-> {YearsMin, YearsDefault, YearsMax},
     target   |-> {0 - TargetDefault, 0, TargetDefault},
     feedback |-> Ratings]

\* the page element that holds each widget and each button
WidgetElement ==
    [rate |-> "sip_form", years |-> "sip_form", target |-> "sip_form",
     feedback |-> "feedback_select"]

Buttons == {"login", "generate", "pdf", "restart"}

ButtonElement ==
    [login |-> "login_form", generate |-> "profile_form",
     pdf |-> "pdf_button", restart |-> "restart_button"]

\* the downloads drawn for the three tickers of a run: a fault, an empty
\* frame, a rising series and one that starts at zero
SampleDownloads ==
    { [k |-> "raise"],
      [k |-> "data", adj |-> <<>>],
      [k |-> "data", adj |-> <<1, MaxPrice>>],
      [k |-> "data", adj |-> <<0, 1>>] }

Unset == [kind |-> "unset"]

VARIABLES
    secrets,        \* the keys st.secrets holds
    session_state,  \* st.session_state, a set of <<key, value>>
    email,          \* the sidebar's text inputs
    password,
    risk,           \* the profile form's selectbox
    inner,          \* the widgets inside the Generate block
    trigger,        \* the button whose press caused this run, or "none"
    pc,             \* where the script is; "idle" between runs
    page,           \* the elements this run has rendered, in order
    allocation,     \* the script's variables
    explanation,
    mip_info,
    returns,
    report,         \* the file at /mnt/data/wealth_report.pdf
    call            \* the computation applied on its own, with its result

widgets == <<email, password, risk, inner>>
locals  == <<allocation, explanation, mip_info, returns>>
appvars == <<secrets, session_state, widgets, trigger, pc, page, locals, report>>
vars    == <<appvars, call>>

OnPage(e) == \E i \in 1..Len(page) : page[i] = e

InSeq(e, s) == \E i \in 1..Len(s) : s[i] = e

HasKey(state, key) == \E kv \in state : kv[1] = key

SetKey(state, key, value) ==
    {kv \in state : kv[1] # key} \cup {<<key, value>>}

Init ==
    /\ secrets \in SUBSET SecretKeys
    /\ session_state = {}
    /\ email = ""
    /\ password = ""
    /\ risk = "Low"
    /\ inner = InnerDefaults
    /\ trigger = "none"
    /\ pc = "secrets"
    /\ page = <<>>
    /\ allocation = Unset
    /\ explanation = Unset
    /\ mip_info = Unset
    /\ returns = <<>>
    /\ report = Unset
    /\ call = [fn |-> "none"]

\* a user action makes the script run again from the top
StartRun(button) ==
    /\ trigger' = button
    /\ pc' = "secrets"
    /\ page' = <<>>
    /\ allocation' = Unset
    /\ explanation' = Unset
    /\ mip_info' = Unset
    /\ returns' = <<>>

\* the script ends (its last line, st.stop() or an uncaught exception) with
\* rendered on the page; a widget the run did not render loses its value
EndRun(rendered) ==
    /\ pc' = "idle"
    /\ page' = rendered
    /\ email' = IF InSeq("login_form", rendered) THEN email ELSE ""
    /\ password' = IF InSeq("login_form", rendered) THEN password ELSE ""
    /\ risk' = IF InSeq("profile_form", rendered) THEN risk ELSE "Low"
    /\ inner' = [f \in DOMAIN inner |->
                    IF InSeq(WidgetElement[f], rendered) THEN inner[f]
                    ELSE InnerDefaults[f]]

(***************************************************************************)
(* User actions, possible between runs on what the page shows.             *)
(***************************************************************************)
Rerun ==
    /\ pc = "idle"
    /\ StartRun("none")
    /\ UNCHANGED <<secrets, session_state, widgets, report, call>>

EditEmail ==
    /\ pc = "idle" /\ OnPage("login_form")
    /\ \E v \in Emails \ {email} : email' = v
    /\ StartRun("none")
    /\ UNCHANGED <<secrets, session_state, password, risk, inner, report, call>>

EditPassword ==
    /\ pc = "idle" /\ OnPage("login_form")
    /\ \E v \in Passwords \ {password} : password' = v
    /\ StartRun("none")
    /\ UNCHANGED <<secrets, session_state, email, risk, inner, report, call>>

EditRisk ==
    /\ pc = "idle" /\ OnPage("profile_form")
    /\ \E v \in RiskProfiles \ {risk} : risk' = v
    /\ StartRun("none")
    /\ UNCHANGED <<secrets, session_state, email, password, inner, report, call>>

EditInner ==
    /\ pc = "idle"
    /\ \E f \in DOMAIN InnerDefaults :
          /\ OnPage(WidgetElement[f])
          /\ \E v \in InnerValues[f] \ {inner[f]} : inner' = [inner EXCEPT ![f] = v]
    /\ StartRun("none")
    /\ UNCHANGED <<secrets, session_state, email, password, risk, report, call>>

Press ==
    /\ pc = "idle"
    /\ \E b \in Buttons : OnPage(ButtonElement[b]) /\ StartRun(b)
    /\ UNCHANGED <<secrets, session_state, widgets, report, call>>

(***************************************************************************)
(* The script, one action per stretch between two external calls.          *)
(***************************************************************************)
\* lines 10-15: read the two secrets, or show the error and stop
RunSecrets_KeyOnly ==
    /\ pc = "secrets"
    /\ IF "openrouter_api_key" \in secrets
       THEN pc' = "login" /\ UNCHANGED <<page, widgets>>
       ELSE EndRun(<<"secrets_error">>)
    /\ UNCHANGED <<secrets, session_state, trigger, locals, report, call>>

RunSecrets ==
    /\ pc = "secrets"
    /\ IF SecretKeys \subseteq secrets
       THEN pc' = "login" /\ UNCHANGED <<page, widgets>>
       ELSE EndRun(<<"secrets_error">>)
    /\ UNCHANGED <<secrets, session_state, trigger, locals, report, call>>

\* lines 108-113: title, login_section(), and the gate
RunLogin_NoPasswordCheck ==
    /\ pc = "login"
    /\ LET pressed == trigger = "login"
           ok      == pressed /\ email # ""
           state1  == IF ok THEN SetKey(session_state, "user", email)
                      ELSE session_state
           page1   == <<"title", "login_form">> \o
                      (IF ~pressed THEN <<>>
                       ELSE IF ok THEN <<"login_success">> ELSE <<"login_error">>)
       IN  /\ session_state' = state1
           /\ IF HasKey(state1, "user")
              THEN pc' = "profile" /\ page' = page1 /\ UNCHANGED widgets
              ELSE EndRun(page1)
    /\ UNCHANGED <<secrets, trigger, locals, report, call>>

RunLogin ==
    /\ pc = "login"
    /\ LET pressed == trigger = "login"
           ok      == pressed /\ email # "" /\ password # ""
           state1  == IF ok THEN SetKey(session_state, "user", email)
                      ELSE session_state
           page1   == <<"title", "login_form">> \o
                      (IF ~pressed THEN <<>>
                       ELSE IF ok THEN <<"login_success">> ELSE <<"login_error">>)
       IN  /\ session_state' = state1
           /\ IF HasKey(state1, "user")
              THEN pc' = "profile" /\ page' = page1 /\ UNCHANGED widgets
              ELSE EndRun(page1)
    /\ UNCHANGED <<secrets, trigger, locals, report, call>>

\* lines 115-121: the profile form and the Generate button
RunProfile ==
    /\ pc = "profile"
    /\ IF trigger = "generate"
       THEN pc' = "allocate" /\ page' = Append(page, "profile_form")
            /\ UNCHANGED widgets
       ELSE EndRun(Append(page, "profile_form"))
    /\ UNCHANGED <<secrets, session_state, trigger, locals, report, call>>

\* lines 122-124: the lookup and the pie chart
RunAllocate_NoChart ==
    /\ pc = "allocate"
    /\ allocation' = get_portfolio_allocation(risk)
    /\ pc' = "explain"
    /\ UNCHANGED <<secrets, session_state, widgets, trigger, page,
                   explanation, mip_info, returns, report, call>>

RunAllocate ==
    /\ pc = "allocate"
    /\ allocation' = get_portfolio_allocation(risk)
    /\ page' = Append(page, "allocation_chart")
    /\ pc' = "explain"
    /\ UNCHANGED <<secrets, session_state, widgets, trigger,
                   explanation, mip_info, returns, report, call>>

\* lines 126-128: the narrator's request and its text
RunExplain ==
    /\ pc = "explain"
    /\ \E reply \in Replies :
          /\ explanation' = explain_portfolio(reply)
          /\ page' = page \o
                (IF CompletionContent(reply).kind = "raise"
                 THEN <<"narrator_warning">> ELSE <<>>) \o <<"explanation">>
    /\ pc' = "sip"
    /\ UNCHANGED <<secrets, session_state, widgets, trigger,
                   allocation, mip_info, returns, report, call>>

\* lines 130-145: the three SIP widgets, the formula, the success line
RunSip ==
    /\ pc = "sip"
    /\ LET plan == SipMonthly(inner.target, inner.rate, inner.years)
       IN  IF plan.k = "ok"
           THEN /\ mip_info' = [monthly |-> plan.monthly, years |-> inner.years,
                                rate |-> inner.rate, future_value |-> inner.target]
                /\ page' = page \o <<"sip_form", "sip_result">>
                /\ pc' = "cagr"
                /\ UNCHANGED widgets
           ELSE /\ mip_info' = mip_info
                /\ EndRun(page \o <<"sip_form", "exception">>)
    /\ UNCHANGED <<secrets, session_state, trigger,
                   allocation, explanation, returns, report, call>>

\* lines 147-152: one fetch_cagr per ticker, in the order of the dict
RunFetch ==
    /\ pc = "cagr"
    /\ \E download \in SampleDownloads :
          returns' = Append(returns, fetch_cagr(download))
    /\ pc' = IF Len(returns) + 1 = Len(Assets) THEN "tail" ELSE "cagr"
    /\ page' = IF Len(returns) = 0 THEN Append(page, "cagr_header") ELSE page
    /\ UNCHANGED <<secrets, session_state, widgets, trigger,
                   allocation, explanation, mip_info, report, call>>

\* lines 154-172: the table, the average or the warning, the PDF button,
\* the feedback selectbox and the Restart button
RunTail ==
    /\ pc = "tail"
    /\ LET rated == inner.feedback # "Select"
           page1 == page
                    \o <<"cagr_table">>
                    \o <<IF aggregate(returns).signal = "info"
                         THEN "average" ELSE "cagr_warning">>
                    \o <<"pdf_button">>
                    \o (IF trigger = "pdf" THEN <<"download_button">> ELSE <<>>)
                    \o <<"feedback_select">>
                    \o (IF rated THEN <<"thanks", "restart_button">> ELSE <<>>)
       IN  /\ report' = IF trigger = "pdf"
                        THEN generate_pdf(risk, allocation, explanation, mip_info)
                        ELSE report
           /\ IF rated /\ trigger = "restart"
              THEN /\ session_state' = {}
                   /\ StartRun("none")
                   /\ UNCHANGED widgets
              ELSE /\ session_state' = session_state
                   /\ EndRun(page1)
                   /\ UNCHANGED <<trigger, locals>>
    /\ UNCHANGED <<secrets, call>>

Next ==
    \/ Rerun
    \/ EditEmail
    \/ EditPassword
    \/ EditRisk
    \/ EditInner
    \/ Press
    \/ RunSecrets
    \/ RunLogin
    \/ RunProfile
    \/ RunAllocate
    \/ RunExplain
    \/ RunSip
    \/ RunFetch
    \/ RunTail

Spec == Init /\ [][Next]_vars

(***************************************************************************)
(* The computations applied on their own: each is called on an argument    *)
(* drawn from its domain and returns.  The SIP formula is applied to every *)
(* sign of target, to a zero rate and to zero years, the arguments its     *)
(* contract speaks of, beside the values the sliders deliver.              *)
(***************************************************************************)
SipTargets == {0 - TargetDefault, -1, 0, 1, TargetDefault}

SipRates == {0, RateMin, RateDefault, RateMax}

SipYears == 0 .. MaxYears

CagrResults == {fetch_cagr(download) : download \in Downloads}

InitCalls == Init /\ secrets = SecretKeys

CallAllocation ==
    /\ call.fn = "none"
    /\ \E r \in RiskProfiles :
          call' = [fn |-> "get_portfolio_allocation", risk |-> r,
                   out |-> get_portfolio_allocation(r)]
    /\ UNCHANGED appvars

CallExplain ==
    /\ call.fn = "none"
    /\ \E reply \in Replies :
          call' = [fn |-> "explain_portfolio", reply |-> reply,
                   out |-> explain_portfolio(reply)]
    /\ UNCHANGED appvars

CallFetchCagr ==
    /\ call.fn = "none"
    /\ \E download \in Downloads :
          call' = [fn |-> "fetch_cagr", download |-> download,
                   out |-> fetch_cagr(download)]
    /\ UNCHANGED appvars

CallSip ==
    /\ call.fn = "none"
    /\ \E target \in SipTargets, rate \in SipRates, years \in SipYears :
          call' = [fn |-> "sip", target |-> target, rate |-> rate, years |-> years,
                   out |-> SipMonthly(target, rate, years)]
    /\ UNCHANGED appvars

CallAggregate ==
    /\ call.fn = "none"
    /\ \E r1 \in CagrResults, r2 \in CagrResults, r3 \in CagrResults :
          call' = [fn |-> "aggregate", returns |-> <<r1, r2, r3>>,
                   out |-> aggregate(<<r1, r2, r3>>)]
    /\ UNCHANGED appvars

Return ==
    /\ call.fn # "none"
    /\ call' = [fn |-> "none"]
    /\ UNCHANGED appvars

NextCalls ==
    \/ CallAllocation
    \/ CallExplain
    \/ CallFetchCagr
    \/ CallSip
    \/ CallAggregate
    \/ Return

SpecCalls == InitCalls /\ [][NextCalls]_vars

(***************************************************************************)
(* Properties.                                                             *)
(***************************************************************************)
LoggedIn == HasKey(session_state, "user")

\* a reply the narrator's contract counts as a fault
FaultyReply(reply) ==
    \/ reply.net = "error"
    \/ reply.body \notin CompleteBodies
    \/ reply.status \notin 200..299

\* C1: explain_portfolio returns the fixed fallback sentence for every
\* faulty outcome of its request: a network error, a body that is no JSON,
\* a JSON body without choices[0].message.content, and any non-2xx status
\* whatever the body holds.
C1_FallbackOnEveryFault ==
    (call.fn = "explain_portfolio" /\ FaultyReply(call.reply))
        => call.out = JStr(Fallback)

\* C2: fetch_cagr returns None, and no number, when the download raises,
\* when the series is empty, and when the first adjusted-close price is <= 0.
C2_NoneOnDegenerateSeries ==
    (call.fn = "fetch_cagr"
     /\ (\/ call.download.k = "raise"
         \/ call.download.adj = <<>>
         \/ call.download.adj[1] <= 0))
        => call.out = None

\* C3: the SIP computation fails with InvalidInput, and yields no monthly
\* contribution, whenever years <= 0 or target <= 0.
C3_NonPositiveInputRejected ==
    (call.fn = "sip" /\ (call.years <= 0 \/ call.target <= 0))
        => call.out.k = "InvalidInput"

\* C4: with a rate of 0 the SIP computation does not fault and returns
\* target / (years * 12), for every target > 0 and years >= 1.
C4_ZeroRateIsLinear ==
    (call.fn = "sip" /\ call.rate = 0 /\ call.target > 0 /\ call.years >= 1)
        => /\ call.out.k = "ok"
           /\ 2 * Abs(call.out.monthly * (call.years * 12) - call.target)
                 <= call.years * 12

\* C5: in every run a press of Generate Portfolio causes, the allocation of
\* the selected risk is on the page from the lookup on, whatever the
\* narrator's request and the three CAGR fetches do, and the run does not
\* end without it.
C5_AllocationAlwaysShown ==
    /\ pc \in {"explain", "sip", "cagr", "tail"}
          => /\ OnPage("allocation_chart")
             /\ allocation = get_portfolio_allocation(risk)
    /\ (pc = "idle" /\ trigger = "generate")
          => /\ OnPage("allocation_chart")
             /\ allocation = get_portfolio_allocation(risk)

\* a Generate run has ended with the narrator on its fallback and all three
\* fetches absent, and the allocation is on the page
C5_Witness ==
    /\ pc = "idle" /\ trigger = "generate"
    /\ explanation = JStr(Fallback)
    /\ returns = <<None, None, None>>
    /\ OnPage("allocation_chart")
    /\ OnPage("cagr_warning")

\* C6: for Low, Medium and High the lookup returns 30/60/10, 50/40/10 and
\* 70/20/10 for Equity/Debt/Gold; each percentage lies in 0..100 and the
\* three sum to exactly 100.
C6_AllocationTable ==
    call.fn = "get_portfolio_allocation" =>
        /\ call.risk = "Low"    => call.out = [Equity |-> 30, Debt |-> 60, Gold |-> 10]
        /\ call.risk = "Medium" => call.out = [Equity |-> 50, Debt |-> 40, Gold |-> 10]
        /\ call.risk = "High"   => call.out = [Equity |-> 70, Debt |-> 20, Gold |-> 10]
        /\ \A i \in 1..Len(Assets) : call.out[Assets[i]] \in 0..100
        /\ call.out.Equity + call.out.Debt + call.out.Gold = 100

C6_Witness ==
    call.fn = "get_portfolio_allocation" /\ call.risk = "High"

\* the results of an aggregate call that are present, and their sum
PresentCount == Cardinality({i \in 1..3 : call.returns[i] # None})

AllFinite == \A i \in 1..3 : call.returns[i].k \in {"None", "num"}

FiniteSum ==
    LET v(i) == IF call.returns[i].k = "num" THEN call.returns[i].bp ELSE 0
    IN  v(1) + v(2) + v(3)

\* C7 as amended: over three results the aggregation yields the arithmetic
\* mean of exactly the present values rounded to two decimals (the nearest
\* hundredth of sum / count, absent values left out of both; a present inf
\* or nan makes the average inf or nan), and when all three are absent the
\* no-data warning and no numeric average.
C7_MeanOfPresentRounded ==
    call.fn = "aggregate" =>
        IF PresentCount = 0
        THEN call.out.signal = "warning" /\ call.out.average = None
        ELSE /\ call.out.signal = "info"
             /\ IF AllFinite
                THEN /\ call.out.average.k = "num"
                     /\ 2 * Abs(PresentCount * call.out.average.bp - FiniteSum)
                           <= PresentCount
                ELSE call.out.average.k \in {"nan", "inf"}

\* one result is absent and the two present ones have a mean that is no
\* whole number of hundredths
C7_Witness ==
    /\ call.fn = "aggregate" /\ AllFinite
    /\ PresentCount = 2
    /\ FiniteSum % 2 = 1
    /\ call.out.signal = "info"

\* C7 as first stated: the average shown is the arithmetic mean itself.
C7_ExactMean ==
    (call.fn = "aggregate" /\ AllFinite) =>
        IF PresentCount = 0
        THEN call.out.signal = "warning" /\ call.out.average = None
        ELSE /\ call.out.signal = "info"
             /\ call.out.average.k = "num"
             /\ PresentCount * call.out.average.bp = FiniteSum

\* C8: with either secret absent every run halts on the error: no login
\* form, no profile form, no allocation lookup and no network call is
\* reached.
C8_MissingSecretHalts ==
    ~(SecretKeys \subseteq secrets) =>
        /\ pc \in {"secrets", "idle"}
        /\ \A i \in 1..Len(page) : page[i] = "secrets_error"
        /\ pc = "idle" => page = <<"secrets_error">>
        /\ allocation = Unset /\ explanation = Unset
        /\ mip_info = Unset /\ returns = <<>> /\ report = Unset
        /\ session_state = {}

\* only the model identifier is absent and the run has halted on the error
C8_Witness ==
    /\ secrets = {"openrouter_api_key"}
    /\ pc = "idle"
    /\ page = <<"secrets_error">>

\* C9: the run a press of Generate PDF Report causes writes the report and
\* offers it for download.
C9_PdfPressWritesReport ==
    (pc = "idle" /\ trigger = "pdf")
        => /\ report # Unset
           /\ OnPage("download_button")

\* the script is past the gate, or shows or holds something from past it
BeyondGate ==
    \/ pc \in {"profile", "allocate", "explain", "sip", "cagr", "tail"}
    \/ \E i \in 1..Len(page) : page[i] \notin {"title", "login_form", "login_success",
                                              "login_error", "secrets_error"}
    \/ allocation # Unset \/ explanation # Unset
    \/ mip_info # Unset \/ returns # <<>>

\* C10: the profile form and every computation are reached only in runs
\* whose session state holds 'user'; 'user' is added only by a Login press
\* with both email and password non-empty, a press with either one empty
\* leaves the session state as it is, and 'user' is removed only by
\* Restart, which clears the state and reruns the script from the top.
C10_LoginGate ==
    /\ [](BeyondGate => LoggedIn)
    /\ [][/\ (~LoggedIn /\ LoggedIn')
                 => (pc = "login" /\ trigger = "login"
                     /\ email # "" /\ password # "")
          /\ (pc = "login" /\ trigger = "login" /\ (email = "" \/ password = ""))
                 => session_state' = session_state
          /\ (LoggedIn /\ ~LoggedIn')
                 => (pc = "tail" /\ trigger = "restart"
                     /\ session_state' = {} /\ pc' = "secrets")]_vars

\* a logged-in user's Generate run has gone through every computation
C10_Witness ==
    /\ pc = "idle" /\ trigger = "generate"
    /\ LoggedIn
    /\ Len(returns) = 3
    /\ mip_info # Unset
====
